---- MODULE Spec2Model ----
(***************************************************************************)
(* The client connection and session coordination core of hfos/isomer:     *)
(* ClientManager (src/hfos/web/clientmanager.py).  The component keeps     *)
(* three dictionaries (_sockets, _clients, _users) and handles the events  *)
(* connect, disconnect, read, authentication, send and broadcast, one at a *)
(* time (circuits runs handlers of one component sequentially).            *)
(*                                                                         *)
(* Every handler is one action.  What a handler fires with fireEvent is    *)
(* recorded, in order, in `out`; whether an exception left the handler is  *)
(* recorded in `raised`; the event that was handled is recorded in `ev`.   *)
(***************************************************************************)
EXTENDS Integers, Sequences, FiniteSets, TLC

\* ------------------------------------------------------------ bounds
\* Login requests the manager forwards to the auth component in one run.
MaxLogins == 2
\* The same, in the runs of repeated logins (SpecRelogin).
MaxRelogins == 3

\* Transport handles (socket objects) the websocket server hands out.  A
\* handle is an object compared by identity: once closed it never connects
\* again, a new connection is a new handle.
Socks == {1, 2}
UserIds == {"U1", "U2"}
ConfigIds == {"CFG1", "CFG2"}
Packets == {"pkt"}

\* Python's None, for a uuid or a payload.
None == "None"

\* str(uuid4()) as drawn in the connect of handle sock: a handle connects
\* once, so every call returns an identifier unlike every other one, and
\* unlike every stored client configuration uuid.
uuid4(sock) == "T" \o ToString(sock)

\* the remote address the transport reports for handle sock
ipOf(sock) == "10.0.0." \o ToString(sock)

VARIABLES
    sockets,    \* self._sockets: handle -> Socket
    clients,    \* self._clients: client uuid -> Client
    users,      \* self._users: user uuid -> User
    opened,     \* handles that have connected at some time
    authq,      \* authenticationrequest events not yet answered
    nlogin,     \* authenticationrequest events fired so far
    ev,         \* the event handled by the last step
    out,        \* the events fired by the last handler, in order
    raised,     \* an exception left the last handler
    schemastore,    \* isomer.database.schemastore: entry point name -> definition
    database,       \* the object collection the dupcheck tool works on
    configuration   \* the run of the configuration upgrade tool

\* the state of the command line tools and of the schema store
tools == <<schemastore, database, configuration>>

vars == <<sockets, clients, users, opened, authq, nlogin, ev, out, raised,
          schemastore, database, configuration>>

\* ------------------------------------------------------------ helpers
Remove(f, k) == [x \in DOMAIN f \ {k} |-> f[x]]
Put(f, k, v) == [x \in DOMAIN f \cup {k} |-> IF x = k THEN v ELSE f[x]]
InSeq(s, x) == \E i \in 1..Len(s) : s[i] = x
RemoveAt(s, i) == [j \in 1..(Len(s) - 1) |-> IF j < i THEN s[j] ELSE s[j + 1]]
\* list.remove(x): drops the first occurrence (x is in s)
FirstIndex(s, x) == CHOOSE i \in 1..Len(s) : s[i] = x /\ \A j \in 1..(i - 1) : s[j] # x
ListRemove(s, x) == RemoveAt(s, FirstIndex(s, x))
\* the orders in which a dictionary's keys may be iterated
Orders(S) == {q \in [1..Cardinality(S) -> S] : \A x \in S : \E i \in DOMAIN q : q[i] = x}

\* ------------------------------------------------------------ objects
\* clientobjects.Socket(ip, clientuuid)
Socket(ip, clientuuid) == [ip |-> ip, clientuuid |-> clientuuid]
\* clientobjects.Client(sock, ip, clientuuid, useruuid=None, name='', config=None)
Client(sock, ip, clientuuid, useruuid, name, config) ==
    [sock |-> sock, ip |-> ip, clientuuid |-> clientuuid, useruuid |-> useruuid,
     name |-> name, config |-> config]
\* clientobjects.User(account, profile, uuid): clients starts empty
User(account, profile, uuid) ==
    [uuid |-> uuid, clients |-> <<>>, account |-> account, profile |-> profile]

\* ------------------------------------------------------------ events
\* circuits.net.events.write(sock, data)
write(sock, data) == [kind |-> "write", sock |-> sock, data |-> data]
\* hfos.events.clientdisconnect(clientuuid, useruuid=None)
clientdisconnect(clientuuid, useruuid) ==
    [kind |-> "clientdisconnect", clientuuid |-> clientuuid, useruuid |-> useruuid]
\* hfos.events.authenticationrequest(username, password, clientuuid, requestedclientuuid, sock)
authenticationrequest(username, password, clientuuid, requestedclientuuid, sock) ==
    [kind |-> "authenticationrequest", username |-> username, password |-> password,
     clientuuid |-> clientuuid, requestedclientuuid |-> requestedclientuuid, sock |-> sock]
\* hfos.events.send(uuid, packet, sendtype="client", raw=False)
sendevent(uuid, packet, sendtype, raw) ==
    [kind |-> "send", uuid |-> uuid, packet |-> packet, sendtype |-> sendtype, raw |-> raw]
\* AuthorizedEvents[component](user, action, data, client)
authorizedevent(component, user, action, data, client) ==
    [kind |-> "authorized", component |-> component, user |-> user, action |-> action,
     data |-> data, client |-> client]

\* json.dumps(x): the serialised text of x, unlike x itself
dumps(x) == <<"json", x>>

\* ------------------------------------------------------------ result of a handler
Result(s, c, u, o, r) == [sockets |-> s, clients |-> c, users |-> u, out |-> o, raised |-> r]

Apply(res) ==
    /\ sockets' = res.sockets
    /\ clients' = res.clients
    /\ users' = res.users
    /\ out' = res.out
    /\ raised' = res.raised

\* ------------------------------------------------------------ connect
\* connectNew without the acknowledgment of line 72
connectNewSilent(sock, ip, clientuuid) ==
    Result(Put(sockets, sock, Socket(ip, clientuuid)),
           Put(clients, clientuuid, Client(sock, ip, clientuuid, None, "", None)),
           users,
           <<>>,
           FALSE)

\* ClientManager.connect, for a handle not yet registered (lines 66-73)
connectNew(sock, ip, clientuuid) ==
    Result(Put(sockets, sock, Socket(ip, clientuuid)),
           Put(clients, clientuuid, Client(sock, ip, clientuuid, None, "", None)),
           users,
           <<write(sock, dumps(<<"info", "Connected">>))>>,
           FALSE)

\* connectAgain registering the handle anew (the lines left as comments, 76-77)
connectAgainReplaces(sock, ip) ==
    Result(Put(sockets, sock, Socket(ip, uuid4(sock))), clients, users, <<>>, FALSE)

\* ClientManager.connect, for a registered handle (lines 74-77): a log line
connectAgain(sock, ip) == Result(sockets, clients, users, <<>>, FALSE)

connect(sock, ip) ==
    /\ sock \notin opened \/ sock \in DOMAIN sockets
    /\ ev' = [kind |-> "connect", sock |-> sock, ip |-> ip]
    /\ opened' = opened \cup {sock}
    /\ IF sock \notin DOMAIN sockets
       THEN Apply(connectNew(sock, ip, uuid4(sock)))
       ELSE Apply(connectAgain(sock, ip))
    /\ UNCHANGED <<authq, nlogin, tools>>

\* ------------------------------------------------------------ disconnect
\* ClientManager.disconnect (lines 42-56).  self._clients[clientuuid] is
\* read (line 53) before anything is fired or deleted: a KeyError there
\* leaves the handler with nothing changed.
disconnectResult(sock) ==
    IF sock \notin DOMAIN sockets
    THEN Result(sockets, clients, users, <<>>, FALSE)
    ELSE LET clientuuid == sockets[sock].clientuuid
         IN  IF clientuuid \notin DOMAIN clients
             THEN Result(sockets, clients, users, <<>>, TRUE)
             ELSE Result(Remove(sockets, sock),
                         Remove(clients, clientuuid),
                         users,
                         <<clientdisconnect(clientuuid, clients[clientuuid].useruuid)>>,
                         FALSE)

disconnect(sock) ==
    /\ ev' = [kind |-> "disconnect", sock |-> sock]
    /\ Apply(disconnectResult(sock))
    /\ UNCHANGED <<opened, authq, nlogin, tools>>

\* ------------------------------------------------------------ authentication
\* The grant the auth component fires for a request: event.userdata is
\* (account, profile, clientconfig); account.uuid is the granted user's uuid.
Account(useruuid) == [uuid |-> useruuid]
Profile(useruuid) == [owner |-> useruuid]
ClientConfig(clientuuid) == [clientuuid |-> clientuuid, name |-> "client " \o clientuuid]
GrantEvent(request, useruuid, configuuid) ==
    [kind |-> "authentication", useruuid |-> useruuid, clientuuid |-> request.clientuuid,
     sock |-> request.sock, account |-> Account(useruuid), profile |-> Profile(useruuid),
     clientconfig |-> ClientConfig(configuuid)]

\* obj.serializablefields(): the externally visible fields of a stored object
serializablefields(obj) == <<"fields", obj>>

\* lines 246-251: the User of the grant, found under event.useruuid or
\* created and stored under account.uuid
signedinuserKey(event) ==
    IF event.useruuid \in DOMAIN users THEN event.useruuid ELSE event.account.uuid

\* signedinuser building a new User for every grant
signedinuserFresh(event) == User(event.account, event.profile, event.useruuid)

signedinuser(event) ==
    IF event.useruuid \in DOMAIN users
    THEN users[event.useruuid]
    ELSE User(event.account, event.profile, event.useruuid)

\* registerClient without the membership test of line 253
registerClientAlways(user, clientuuid) ==
    [user EXCEPT !.clients = Append(user.clients, clientuuid)]

\* lines 253-257: append the client unless it is in the list
registerClient(user, clientuuid) ==
    IF InSeq(user.clients, clientuuid)
    THEN user
    ELSE [user EXCEPT !.clients = Append(user.clients, clientuuid)]

\* rekeyClients leaving a Client that is stored under clientuuid in place
rekeyClientsKeepsExisting(cl, originatingclientuuid, clientuuid, newclient) ==
    IF clientuuid \in DOMAIN cl
    THEN cl
    ELSE Put(Remove(cl, originatingclientuuid), clientuuid, newclient)

\* lines 266-267: del self._clients[originating]; self._clients[clientuuid] = newclient
rekeyClients(cl, originatingclientuuid, clientuuid, newclient) ==
    Put(Remove(cl, originatingclientuuid), clientuuid, newclient)

\* loginPackets with the profile packet fired before the account packet
loginPacketsProfileFirst(event) ==
    << write(event.sock, dumps([component |-> "profile", action |-> "get",
                                data |-> serializablefields(event.profile)])),
       write(event.sock, dumps([component |-> "auth", action |-> "login",
                                data |-> serializablefields(event.account)])),
       write(event.sock, dumps([component |-> "clientconfig", action |-> "get",
                                data |-> serializablefields(event.clientconfig)])) >>

\* lines 269-280: the three packets, in the order they are fired
loginPackets(event) ==
    << write(event.sock, dumps([component |-> "auth", action |-> "login",
                                data |-> serializablefields(event.account)])),
       write(event.sock, dumps([component |-> "profile", action |-> "get",
                                data |-> serializablefields(event.profile)])),
       write(event.sock, dumps([component |-> "clientconfig", action |-> "get",
                                data |-> serializablefields(event.clientconfig)])) >>

\* ClientManager.authentication (lines 233-286).  The body is one try
\* block: an exception ends it where it is raised and keeps what was
\* assigned before.
authenticationResult(event) ==
    LET useruuid == event.useruuid
        originatingclientuuid == event.clientuuid
        clientuuid == event.clientconfig.clientuuid
        users1 == Put(users, signedinuserKey(event),
                      registerClient(signedinuser(event), clientuuid))
    IN  IF event.sock \notin DOMAIN sockets
        THEN \* line 260: KeyError
             Result(sockets, clients, users1, <<>>, FALSE)
        ELSE LET sockets1 == [sockets EXCEPT ![event.sock].clientuuid = clientuuid]
                 newclient == Client(event.sock, sockets[event.sock].ip, clientuuid, useruuid,
                                     event.clientconfig.name, event.clientconfig)
             IN  IF originatingclientuuid \notin DOMAIN clients
                 THEN \* line 266: KeyError
                      Result(sockets1, clients, users1, <<>>, FALSE)
                 ELSE Result(sockets1,
                             rekeyClients(clients, originatingclientuuid, clientuuid, newclient),
                             users1,
                             loginPackets(event),
                             FALSE)

\* the auth component answers the i-th outstanding request with a grant
authentication(i, useruuid, configuuid) ==
    /\ i \in 1..Len(authq)
    /\ LET event == GrantEvent(authq[i], useruuid, configuuid)
       IN  /\ ev' = event
           /\ Apply(authenticationResult(event))
    /\ authq' = RemoveAt(authq, i)
    /\ UNCHANGED <<opened, nlogin, tools>>

\* ------------------------------------------------------------ read
\* hfos.events.AuthorizedEvents: the components with a registered event
AuthorizedEvents == {"chat"}

\* The payloads a client may write.  form says how far the envelope
\* {"message": {"component", "action", "data"}} is well formed:
\*   notjson           json.loads raises
\*   notobject         JSON, but a list, a number, a string or null
\*   nomessage         an object without "message"
\*   messagenotobject  "message" is a list, a number, a string or null
\*   nocomponent       "message" is an object without "component"
\*   noaction          "message" is an object without "action"
\*   ok                component and action are there
\* data: "absent" (no "data" key), "partial" (an object lacking a login
\* field) or "full" (username, password and clientuuid)
Msg(form, component, action, data) ==
    [form |-> form, component |-> component, action |-> action, data |-> data]

Messages ==
    {Msg(f, None, None, "absent") :
        f \in {"notjson", "notobject", "nomessage", "messagenotobject",
               "nocomponent", "noaction"}}
    \cup {Msg("ok", "auth", "login", d) : d \in {"absent", "partial", "full"}}
    \cup {Msg("ok", "auth", "logout", "absent"), Msg("ok", "auth", "get", "absent")}
    \cup {Msg("ok", "chat", "get", d) : d \in {"absent", "full"}}
    \cup {Msg("ok", "bogus", "get", "absent")}

\* msg['message']['data'], or None without it (lines 198-202)
requestdataOf(msg) == IF msg.data = "absent" THEN None ELSE msg.data

\* handleAuthenticationEvents tagging the request with the client uuid the
\* payload asks for, not with the one the socket is bound to
handleAuthenticationEventsRequestedId(requestdata, requestaction, clientuuid, sock) ==
    IF requestaction = "login"
    THEN IF requestdata = "full"
         THEN <<authenticationrequest("username", "password", "requested", "requested", sock)>>
         ELSE <<>>
    ELSE IF requestaction = "logout"
         THEN <<clientdisconnect(clientuuid, None)>>
         ELSE <<>>

\* ClientManager._handleAuthenticationEvents (lines 152-168): what it fires
handleAuthenticationEvents(requestdata, requestaction, clientuuid, sock) ==
    IF requestaction = "login"
    THEN IF requestdata = "full"
         THEN <<authenticationrequest("username", "password", clientuuid, "requested", sock)>>
         ELSE <<>>   \* TypeError on None or KeyError, caught at line 164
    ELSE IF requestaction = "logout"
         THEN <<clientdisconnect(clientuuid, None)>>
         ELSE <<>>

\* handleAuthorizedEvents firing an event for every component
handleAuthorizedEventsAll(component, action, data, user, client) ==
    <<authorizedevent(component, user, action, data, client)>>

\* ClientManager._handleAuthorizedEvents (lines 136-150): what it fires
handleAuthorizedEvents(component, action, data, user, client) ==
    IF DOMAIN user = {} /\ component \in AuthorizedEvents
    THEN <<>>   \* lines 140-142: not user (a User object is true)
    ELSE IF component \notin AuthorizedEvents
         THEN <<>>   \* KeyError at line 144, caught at line 149
         ELSE <<authorizedevent(component, user, action, data, client)>>

\* authorizedRead with a guest User in place of the failing lookup
authorizedReadAsGuest(component, action, data, useruuid, client) ==
    handleAuthorizedEvents(component, action, data,
                           IF useruuid \in DOMAIN users
                           THEN users[useruuid]
                           ELSE User(None, None, useruuid),
                           client)

\* lines 222-231: only for a signed-in user is the request handed on
authorizedRead(component, action, data, useruuid, client) ==
    IF useruuid \notin DOMAIN users
    THEN <<>>   \* KeyError, lines 224-226
    ELSE handleAuthorizedEvents(component, action, data, users[useruuid], client)

\* logoutResult deleting the User whose last client logged out
logoutResultDropsUser(clientuuid, useruuid, fired) ==
    IF useruuid \notin DOMAIN users \/ ~InSeq(users[useruuid].clients, clientuuid)
    THEN Result(sockets, clients, users, fired, TRUE)
    ELSE Result(sockets,
                [clients EXCEPT ![clientuuid].useruuid = None],
                IF ListRemove(users[useruuid].clients, clientuuid) = <<>>
                THEN Remove(users, useruuid)
                ELSE [users EXCEPT ![useruuid].clients = ListRemove(@, clientuuid)],
                fired,
                FALSE)

\* logoutResult without line 219: the Client keeps its user
logoutResultKeepsUser(clientuuid, useruuid, fired) ==
    IF useruuid \notin DOMAIN users \/ ~InSeq(users[useruuid].clients, clientuuid)
    THEN Result(sockets, clients, users, fired, TRUE)
    ELSE Result(sockets,
                clients,
                [users EXCEPT ![useruuid].clients = ListRemove(@, clientuuid)],
                fired,
                FALSE)

\* lines 215-220: self._users[useruuid].clients.remove(clientuuid) and
\* self._clients[clientuuid].useruuid = None, outside every try block
logoutResult(clientuuid, useruuid, fired) ==
    IF useruuid \notin DOMAIN users
    THEN Result(sockets, clients, users, fired, TRUE)        \* KeyError
    ELSE IF ~InSeq(users[useruuid].clients, clientuuid)
         THEN Result(sockets, clients, users, fired, TRUE)   \* ValueError
         ELSE Result(sockets,
                     [clients EXCEPT ![clientuuid].useruuid = None],
                     [users EXCEPT ![useruuid].clients = ListRemove(@, clientuuid)],
                     fired,
                     FALSE)

\* authResult marking the Client as signing in
authResultMarksClient(clientuuid, fired) ==
    Result(sockets, [clients EXCEPT ![clientuuid].name = "signing in"], users, fired, FALSE)

\* lines 215-220, for an auth action other than logout: return
authResult(clientuuid, fired) == Result(sockets, clients, users, fired, FALSE)

\* dropped answering the sender with an error packet
rejected(sock, exc) ==
    Result(sockets, clients, users, <<write(sock, dumps("error"))>>, exc)

\* lines 187-196: a payload that cannot be unpacked ends the handler, logged
\* (or with the exception that escapes)
dropped(sock, exc) == Result(sockets, clients, users, <<>>, exc)

\* ClientManager.read (lines 171-231)
readResult(sock, msg) ==
    LET \* lines 175-182: a failing lookup is logged and clientuuid stays None
        clientuuid == IF sock \in DOMAIN sockets THEN sockets[sock].clientuuid ELSE None
        same(fired, exc) == Result(sockets, clients, users, fired, exc)
    IN  CASE msg.form = "notjson" -> dropped(sock, FALSE)          \* line 189
          [] msg.form \in {"notobject", "messagenotobject"} ->
                dropped(sock, TRUE)                                \* TypeError, lines 192-193
          [] msg.form \in {"nomessage", "nocomponent", "noaction"} ->
                dropped(sock, FALSE)                               \* line 196
          [] OTHER ->
            LET requestcomponent == msg.component
                requestaction == msg.action
                requestdata == requestdataOf(msg)
                fired == IF requestcomponent = "auth"
                         THEN handleAuthenticationEvents(requestdata, requestaction,
                                                         clientuuid, sock)
                         ELSE <<>>
            IN  IF clientuuid \notin DOMAIN clients
                THEN same(fired, FALSE)                            \* lines 212-214
                ELSE LET client == clients[clientuuid]
                         useruuid == client.useruuid
                     IN  IF requestcomponent = "auth"
                         THEN IF requestaction = "logout"
                              THEN logoutResult(clientuuid, useruuid, fired)
                              ELSE authResult(clientuuid, fired)
                         ELSE same(authorizedRead(requestcomponent, requestaction,
                                                  requestdata, useruuid, client),
                                   FALSE)

\* the authenticationrequest events among those fired reach the auth component
Requests(fired) == SelectSeq(fired, LAMBDA e : e.kind = "authenticationrequest")

\* a read is handled; at most `logins` login requests are forwarded in a run
readWithin(sock, msg, logins) ==
    LET res == readResult(sock, msg)
    IN  /\ sock \in opened
        /\ nlogin + Len(Requests(res.out)) <= logins
        /\ ev' = [kind |-> "read", sock |-> sock, msg |-> msg]
        /\ Apply(res)
        /\ authq' = authq \o Requests(res.out)
        /\ nlogin' = nlogin + Len(Requests(res.out))
        /\ UNCHANGED <<opened, tools>>

read(sock, msg) == readWithin(sock, msg, MaxLogins)

\* ------------------------------------------------------------ send
\* the events other components may fire at the manager
ClientIds == ConfigIds \cup {uuid4(sock) : sock \in Socks}
SendEvents ==
    {sendevent(u, p, "user", r) : u \in UserIds, p \in Packets, r \in BOOLEAN}
    \cup {sendevent(c, p, "client", r) : c \in ClientIds, p \in Packets, r \in BOOLEAN}

\* lines 93-97 and 106-110: the packet as it is written
payload(event) == IF event.raw THEN event.packet ELSE dumps(event.packet)

\* sendToClients leaving the loop after its first write
sendToClientsFirstOnly(list, event) ==
    IF list = <<>> \/ list[1] \notin DOMAIN clients
    THEN <<>>
    ELSE <<write(clients[list[1]].sock, payload(event))>>

\* lines 90-97: one write per client uuid of the list, until a uuid that
\* is no key of self._clients raises KeyError (line 91), which ends the loop
sendToClients(list, event) ==
    LET missing == {i \in 1..Len(list) : list[i] \notin DOMAIN clients}
        stop == IF missing = {} THEN Len(list) + 1
                ELSE CHOOSE i \in missing : \A j \in missing : i <= j
    IN  [i \in 1..(stop - 1) |-> write(clients[list[i]].sock, payload(event))]

\* send without the membership tests of lines 85 and 100 and without the
\* try block: the KeyError of an unknown uuid leaves the handler
sendResultUnguarded(event) ==
    IF event.sendtype = "user"
    THEN IF event.uuid \notin DOMAIN users
         THEN Result(sockets, clients, users, <<>>, TRUE)
         ELSE Result(sockets, clients, users,
                     sendToClients(users[event.uuid].clients, event), FALSE)
    ELSE IF event.uuid \notin DOMAIN clients
         THEN Result(sockets, clients, users, <<>>, TRUE)
         ELSE Result(sockets, clients, users,
                     <<write(clients[event.uuid].sock, payload(event))>>, FALSE)

\* send dropping from the addressed User's list the ids that have no Client
sendResultPrunes(event) ==
    IF event.sendtype = "user"
    THEN IF event.uuid \notin DOMAIN users
         THEN Result(sockets, clients, users, <<>>, FALSE)
         ELSE Result(sockets, clients,
                     [users EXCEPT ![event.uuid].clients =
                         SelectSeq(@, LAMBDA c : c \in DOMAIN clients)],
                     sendToClients(users[event.uuid].clients, event), FALSE)
    ELSE IF event.uuid \notin DOMAIN clients
         THEN Result(sockets, clients, users, <<>>, FALSE)
         ELSE Result(sockets, clients, users,
                     <<write(clients[event.uuid].sock, payload(event))>>, FALSE)

\* ClientManager.send (lines 79-113): one try block, every exception is
\* caught and logged at line 112
sendResult(event) ==
    IF event.sendtype = "user"
    THEN IF event.uuid \notin DOMAIN users
         THEN Result(sockets, clients, users, <<>>, FALSE)
         ELSE Result(sockets, clients, users,
                     sendToClients(users[event.uuid].clients, event), FALSE)
    ELSE IF event.uuid \notin DOMAIN clients
         THEN Result(sockets, clients, users, <<>>, FALSE)
         ELSE Result(sockets, clients, users,
                     <<write(clients[event.uuid].sock, payload(event))>>, FALSE)

\* a send event is handled, whether fired by another component or by
\* broadcast: the events of other handlers may be handled in between
send(event) ==
    /\ ev' = event
    /\ Apply(sendResult(event))
    /\ UNCHANGED <<opened, authq, nlogin, tools>>

\* ------------------------------------------------------------ broadcast
BroadcastEvents ==
    {[kind |-> "broadcast", broadcasttype |-> t, content |-> p] :
        t \in {"users", "clients", "socks"}, p \in Packets}

\* broadcastResult reaching, of the sockets, only those with a Client
broadcastResultSocksWithClient(event, order) ==
    LET known == SelectSeq(order, LAMBDA s : sockets[s].clientuuid \in DOMAIN clients)
    IN  Result(sockets, clients, users,
               CASE event.broadcasttype = "users" ->
                      [i \in DOMAIN order |-> sendevent(order[i], event.content, "user", FALSE)]
                 [] event.broadcasttype = "clients" ->
                      [i \in DOMAIN order |-> write(clients[order[i]].sock, event.content)]
                 [] event.broadcasttype = "socks" ->
                      [i \in DOMAIN known |-> write(known[i], event.content)]
                 [] OTHER -> <<>>,
               FALSE)

\* broadcastResult reaching, of the clients, only those with a user
broadcastResultSignedIn(event, order) ==
    LET signedin == SelectSeq(order, LAMBDA c : clients[c].useruuid # None)
    IN  Result(sockets, clients, users,
               CASE event.broadcasttype = "users" ->
                      [i \in DOMAIN order |-> sendevent(order[i], event.content, "user", FALSE)]
                 [] event.broadcasttype = "clients" ->
                      [i \in DOMAIN signedin |-> write(clients[signedin[i]].sock, event.content)]
                 [] event.broadcasttype = "socks" ->
                      [i \in DOMAIN order |-> write(order[i], event.content)]
                 [] OTHER -> <<>>,
               FALSE)

\* ClientManager.broadcast (lines 115-134), the dictionary iterated in the
\* order `order`
broadcastResult(event, order) ==
    Result(sockets, clients, users,
           CASE event.broadcasttype = "users" ->
                  [i \in DOMAIN order |-> sendevent(order[i], event.content, "user", FALSE)]
             [] event.broadcasttype = "clients" ->
                  [i \in DOMAIN order |-> write(clients[order[i]].sock, event.content)]
             [] event.broadcasttype = "socks" ->
                  [i \in DOMAIN order |-> write(order[i], event.content)]
             [] OTHER -> <<>>,
           FALSE)

\* the dictionary a broadcast iterates
broadcastKeys(event) ==
    CASE event.broadcasttype = "users" -> DOMAIN users
      [] event.broadcasttype = "clients" -> DOMAIN clients
      [] event.broadcasttype = "socks" -> DOMAIN sockets
      [] OTHER -> {}

broadcast(event) ==
    \E order \in Orders(broadcastKeys(event)) :
        /\ ev' = event
        /\ Apply(broadcastResult(event, order))
        /\ UNCHANGED <<opened, authq, nlogin, tools>>

\* no tool has run and no schema is loaded
ToolsIdle ==
    /\ schemastore = << >>
    /\ database = [state |-> "idle"]
    /\ configuration = [state |-> "idle"]

\* ClientManager.__init__ (lines 35-40): the three maps are empty
ManagerInit ==
    /\ sockets = << >>
    /\ clients = << >>
    /\ users = << >>
    /\ opened = {}
    /\ authq = << >>
    /\ nlogin = 0
    /\ ev = [kind |-> "init"]
    /\ out = << >>
    /\ raised = FALSE

Init == ManagerInit /\ ToolsIdle

Next ==
    \/ \E sock \in Socks : connect(sock, ipOf(sock))
    \/ \E sock \in Socks : disconnect(sock)
    \/ \E sock \in Socks, msg \in Messages : read(sock, msg)
    \/ \E i \in 1..MaxLogins, useruuid \in UserIds, configuuid \in ConfigIds :
          authentication(i, useruuid, configuuid)
    \/ \E event \in SendEvents : send(event)
    \/ \E event \in BroadcastEvents : broadcast(event)

Spec == Init /\ [][Next]_vars

\* Repeated logins: the connection handlers alone (send and broadcast change
\* nothing), the clients writing only auth requests, with one more login.
AuthMessages == {msg \in Messages : msg.form = "ok" /\ msg.component = "auth" /\ msg.data # "partial"}

NextRelogin ==
    \/ \E sock \in Socks : connect(sock, ipOf(sock))
    \/ \E sock \in Socks : disconnect(sock)
    \/ \E sock \in Socks, msg \in AuthMessages : readWithin(sock, msg, MaxRelogins)
    \/ \E i \in 1..MaxRelogins, useruuid \in UserIds, configuuid \in ConfigIds :
          authentication(i, useruuid, configuuid)

SpecRelogin == Init /\ [][NextRelogin]_vars

\* ============================================================ properties
\* the client uuids of a user's session, as a set
Attached(u) == {users[u].clients[i] : i \in DOMAIN users[u].clients}
\* socket s is authenticated as user u under client uuid c
Authenticated(s, c, u) ==
    /\ s \in DOMAIN sockets
    /\ sockets[s].clientuuid = c
    /\ c \in DOMAIN clients
    /\ clients[c].sock = s
    /\ clients[c].useruuid = u
\* the step handled an event of this kind
Handled(kind) == ev'.kind = kind

\* C1: every client uuid in any User's client list is a key of the client
\* map, in every reachable state.
C1_UserClientsRegistered ==
    \A u \in DOMAIN users : Attached(u) \subseteq DOMAIN clients

\* C2: for every registered Socket, the client uuid bound to it is a key of
\* the client map and the Client stored there has that Socket's handle.
C2_SocketBindingResolves ==
    \A s \in DOMAIN sockets :
        /\ sockets[s].clientuuid \in DOMAIN clients
        /\ clients[sockets[s].clientuuid].sock = s

\* C3: a disconnect of a registered handle leaves the socket map without
\* the handle and the client map without the client uuid bound to it.
C3_DisconnectRemoves ==
    [][(Handled("disconnect") /\ ev'.sock \in DOMAIN sockets)
        => /\ ev'.sock \notin DOMAIN sockets'
           /\ sockets[ev'.sock].clientuuid \notin DOMAIN clients']_vars

\* C4: after a disconnect of a handle whose client was authenticated, no
\* User's client list contains the vacated client uuid.
C4_DisconnectDetaches ==
    [][(/\ Handled("disconnect")
        /\ ev'.sock \in DOMAIN sockets
        /\ sockets[ev'.sock].clientuuid \in DOMAIN clients
        /\ clients[sockets[ev'.sock].clientuuid].useruuid # None)
        => \A u \in DOMAIN users' :
              ~InSeq(users'[u].clients, sockets[ev'.sock].clientuuid)]_vars

\* C5: a grant whose originating socket has disconnected since it asked
\* for the login (the request carries its temporary client uuid) leaves no
\* dangling entries (no client list gains a uuid that is no key of the
\* client map, no Socket or Client is created); a disconnect after a
\* completed grant removes the socket and the record of the stable uuid.
C5_GrantAfterDisconnectClean ==
    [][/\ (Handled("authentication") /\ ev'.clientuuid # None
                                       /\ ev'.sock \notin DOMAIN sockets)
          => /\ sockets' = sockets
             /\ clients' = clients
             /\ \A u \in DOMAIN users' : \A i \in DOMAIN users'[u].clients :
                   \/ users'[u].clients[i] \in DOMAIN clients'
                   \/ u \in DOMAIN users /\ InSeq(users[u].clients, users'[u].clients[i])
       /\ (/\ Handled("disconnect")
           /\ ev'.sock \in DOMAIN sockets
           /\ Authenticated(ev'.sock, sockets[ev'.sock].clientuuid,
                            clients[sockets[ev'.sock].clientuuid].useruuid))
          => /\ ev'.sock \notin DOMAIN sockets'
             /\ sockets[ev'.sock].clientuuid \notin DOMAIN clients']_vars

\* C6: a grant for a client with a temporary uuid and no bound user, on its
\* registered socket, re-keys exactly one Client: the temporary uuid is no
\* key any more, the stable uuid is a key whose record has the socket, the
\* granted user and the socket's ip, the socket is bound to the stable uuid
\* and the number of Client records is unchanged.
C6_GrantRekeysOneClient ==
    [][(/\ Handled("authentication")
        /\ ev'.sock \in DOMAIN sockets
        /\ sockets[ev'.sock].clientuuid = ev'.clientuuid
        /\ ev'.clientuuid \notin ConfigIds
        /\ ev'.clientuuid \in DOMAIN clients
        /\ clients[ev'.clientuuid].useruuid = None)
        => LET stable == ev'.clientconfig.clientuuid
           IN  /\ ev'.clientuuid \notin DOMAIN clients'
               /\ stable \in DOMAIN clients'
               /\ clients'[stable].sock = ev'.sock
               /\ clients'[stable].useruuid = ev'.useruuid
               /\ clients'[stable].ip = sockets[ev'.sock].ip
               /\ sockets'[ev'.sock].clientuuid = stable
               /\ Cardinality(DOMAIN clients') = Cardinality(DOMAIN clients)]_vars

\* C7: a grant appends exactly one entry to the User's client list when the
\* client uuid is not attached yet and none when it is; no User's client
\* list ever contains a client uuid twice.
C7_NoDuplicateClients ==
    \A u \in DOMAIN users : \A i, j \in DOMAIN users[u].clients :
        users[u].clients[i] = users[u].clients[j] => i = j

C7_GrantAttachesOnce ==
    /\ []C7_NoDuplicateClients
    /\ [][Handled("authentication")
          => LET u == ev'.useruuid
                 c == ev'.clientconfig.clientuuid
                 before == IF u \in DOMAIN users THEN users[u].clients ELSE <<>>
             IN  /\ u \in DOMAIN users'
                 /\ users'[u].clients = IF InSeq(before, c) THEN before ELSE Append(before, c)
                 /\ \A w \in DOMAIN users' \ {u} : w \in DOMAIN users /\ users'[w] = users[w]]_vars

\* a grant has appended to a list that already held another client
C7_Witness ==
    /\ ev.kind = "authentication"
    /\ ev.useruuid \in DOMAIN users
    /\ Len(users[ev.useruuid].clients) = 2
    /\ users[ev.useruuid].clients[2] = ev.clientconfig.clientuuid

\* C8: in a send to a user, the failure at one client uuid of the list (its
\* record is gone) does not prevent the write to the other clients of the
\* user that resolve.
C8_SendReachesResolvable ==
    (ev.kind = "send" /\ ev.sendtype = "user" /\ ev.uuid \in DOMAIN users)
    => \A c \in Attached(ev.uuid) \cap DOMAIN clients :
          \E i \in DOMAIN out : out[i] = write(clients[c].sock, payload(ev))

\* C9: a send to a user uuid that is no key of the Session Table, or to a
\* client uuid that is no key of the client map, fires nothing, raises
\* nothing, leaves the three maps as they are and changes the outcome of no
\* other send.
UnknownTarget(event) ==
    IF event.sendtype = "user"
    THEN event.uuid \notin DOMAIN users
    ELSE event.uuid \notin DOMAIN clients

C9_SendUnknownIsNoop ==
    [][(Handled("send") /\ UnknownTarget(ev'))
        => /\ out' = <<>>
           /\ raised' = FALSE
           /\ sockets' = sockets /\ clients' = clients /\ users' = users
           /\ authq' = authq
           /\ \A e \in SendEvents : sendResult(e)' = sendResult(e)]_vars

\* a send to an unknown user was handled while clients and another user
\* were registered
C9_Witness ==
    /\ ev.kind = "send"
    /\ ev.sendtype = "user"
    /\ ev.uuid \notin DOMAIN users
    /\ DOMAIN users # {}
    /\ DOMAIN clients # {}
    /\ out = <<>>

\* C10: when the client list of a user holds the client uuids of sockets
\* authenticated as that user, a send to the user fires exactly one write
\* per socket, in list order; a send to one client uuid fires exactly one
\* write, to the socket bound to that client.
SessionSockets(u) ==
    [i \in DOMAIN users[u].clients |->
        {s \in DOMAIN sockets : Authenticated(s, users[u].clients[i], u)}]

GrantSucceeds ==
    /\ Handled("authentication")
    /\ ev'.sock \in DOMAIN sockets
    /\ ev'.clientuuid \in DOMAIN clients

\* exactly the three login packets, all to sock, in the order of the protocol
LoginWrites(fired, sock) ==
    /\ Len(fired) = 3
    /\ \A i \in 1..3 : fired[i].kind = "write" /\ fired[i].sock = sock
    /\ <<fired[1].data[2].component, fired[1].data[2].action>> = <<"auth", "login">>
    /\ <<fired[2].data[2].component, fired[2].data[2].action>> = <<"profile", "get">>
    /\ <<fired[3].data[2].component, fired[3].data[2].action>> = <<"clientconfig", "get">>

\* the client map maps the stable id to the Client of the granted connection
GrantedClient ==
    LET clientuuid == ev'.clientconfig.clientuuid
    IN  /\ clientuuid \in DOMAIN clients'
        /\ clients'[clientuuid].sock = ev'.sock
        /\ clients'[clientuuid].clientuuid = clientuuid
        /\ clients'[clientuuid].useruuid = ev'.useruuid

clientsBefore(useruuid) == IF useruuid \in DOMAIN users THEN users[useruuid].clients ELSE <<>>

\* C11 as stated: a successful grant issues exactly the three writes auth/login,
\* profile/get, clientconfig/get, in that order and all to the originating
\* socket; after it the client map maps the stable id to the Client and the
\* client list of the user ends with that id.
C11_GrantEndsWithClient ==
    [][GrantSucceeds =>
         /\ LoginWrites(out', ev'.sock)
         /\ GrantedClient
         /\ ev'.useruuid \in DOMAIN users'
         /\ LET list == users'[ev'.useruuid].clients
            IN  Len(list) > 0 /\ list[Len(list)] = ev'.clientconfig.clientuuid]_vars

\* C11 amended: a successful grant issues exactly the three writes, in that
\* order and all to the originating socket; after it the client map maps the
\* stable id to the Client and the client list of the user holds that id, as
\* its last entry when the id was not in the list before the grant.
C11_GrantWritesAndAttaches ==
    [][GrantSucceeds =>
         /\ LoginWrites(out', ev'.sock)
         /\ GrantedClient
         /\ ev'.useruuid \in DOMAIN users'
         /\ LET list == users'[ev'.useruuid].clients
                clientuuid == ev'.clientconfig.clientuuid
            IN  /\ InSeq(list, clientuuid)
                /\ ~InSeq(clientsBefore(ev'.useruuid), clientuuid)
                      => list[Len(list)] = clientuuid]_vars

\* a grant succeeded for a client id that the user's list held already,
\* before another id
C11_Witness ==
    /\ ev.kind = "authentication"
    /\ Len(out) = 3
    /\ ev.useruuid \in DOMAIN users
    /\ LET list == users[ev.useruuid].clients
       IN  /\ InSeq(list, ev.clientconfig.clientuuid)
           /\ list[Len(list)] # ev.clientconfig.clientuuid

\* ---- C12
\* the Client a registered socket is bound to
BoundClient(sock) == clients[sockets[sock].clientuuid]

Registered(sock) == sock \in DOMAIN sockets /\ sockets[sock].clientuuid \in DOMAIN clients

\* a registered connection whose Client has no bound user
Anonymous(sock) == Registered(sock) /\ BoundClient(sock).useruuid = None

\* a read on this connection for a registered component would be dispatched
Dispatchable(sock) == Registered(sock) /\ BoundClient(sock).useruuid \in DOMAIN users

IsLogout(msg) == msg.form = "ok" /\ msg.component = "auth" /\ msg.action = "logout"

NonAuth(msg) == msg.form = "ok" /\ msg.component # "auth"

Dispatched(fired) == \E i \in DOMAIN fired : fired[i].kind = "authorized"

\* C12: a logout read on an authenticated connection takes the client id out
\* of the user's client list and leaves the connection without a user; a
\* connection logged out stays so until a grant for that connection is applied
\* (or it closes); and a read for a non-auth component on a connection
\* without a user dispatches no handler event.
C12_LoggedOutUntilGrant ==
    [][/\ \A sock \in Socks, clientuuid \in ConfigIds, useruuid \in UserIds :
            /\ Handled("read") /\ ev'.sock = sock /\ IsLogout(ev'.msg)
            /\ Authenticated(sock, clientuuid, useruuid)
            => /\ ~InSeq(users'[useruuid].clients, clientuuid)
               /\ Anonymous(sock)'
       /\ \A sock \in Socks :
            /\ Anonymous(sock)
            /\ sockets[sock].clientuuid \in ConfigIds
            /\ ~(Handled("authentication") /\ ev'.sock = sock)
            => ~Dispatchable(sock)'
       /\ \A sock \in Socks :
            /\ Handled("read") /\ ev'.sock = sock /\ NonAuth(ev'.msg)
            /\ ~Dispatchable(sock)
            => ~Dispatched(out')]_vars

\* ---- C13
\* C13: no handler of the client manager ends with an exception escaping it,
\* whatever the sequence of events and their payloads.
C13_NoExceptionEscapes == raised = FALSE

\* ---- C14
MapsUnchanged == sockets' = sockets /\ clients' = clients /\ users' = users

\* C14: a read on a handle that is not in the socket map emits nothing (no
\* authentication request, no disconnect notification, no handler event, no
\* write) and leaves the three maps unchanged, whatever its payload.
C14_UnknownHandleFailsClosed ==
    [][Handled("read") /\ ev'.sock \notin DOMAIN sockets
         => out' = <<>> /\ MapsUnchanged]_vars

\* ---- C15
\* C15: a read for a component other than auth on a connection whose Client
\* has no bound user fires nothing: no handler event and no write, for a
\* registered component and for an unregistered one.
C15_AnonymousReadDispatchesNothing ==
    (ev.kind = "read" /\ NonAuth(ev.msg) /\ Anonymous(ev.sock)) => out = <<>>

\* an anonymous connection asked for a registered component
C15_Witness ==
    /\ ev.kind = "read"
    /\ NonAuth(ev.msg)
    /\ ev.msg.component \in AuthorizedEvents
    /\ Anonymous(ev.sock)
    /\ out = <<>>

\* ---- C16
Malformed(msg) == msg.form # "ok"

\* C16: a read whose payload is not JSON, not an object, without "message"
\* (or with one that is no object), or without "component" or "action" fires
\* no event and changes none of the maps: the Socket and the Client of the
\* connection stay registered.
C16_MalformedReadDropped ==
    [][Handled("read") /\ Malformed(ev'.msg)
         => /\ out' = <<>>
            /\ MapsUnchanged
            /\ \A sock \in Socks :
                 ev'.sock = sock /\ Registered(sock) => Registered(sock)']_vars

\* a registered connection wrote JSON that is not an object; its records stay
C16_Witness ==
    /\ ev.kind = "read"
    /\ ev.msg.form = "notobject"
    /\ Registered(ev.sock)
    /\ out = <<>>

\* ---- C17
\* C17: a logout read on a connection whose Client has no bound user raises
\* no exception and leaves the users, the sockets and the clients as they were.
C17_AnonymousLogoutIsNoop ==
    [][Handled("read") /\ IsLogout(ev'.msg) /\ Anonymous(ev'.sock)
         => raised' = FALSE /\ MapsUnchanged]_vars

\* ---- C18
\* C18: a logout read on an authenticated connection takes the client id out
\* of its user's client list and clears the user of the Client; the Client
\* stays in the client map under the same id, the Socket stays registered
\* and bound to that id, no other id appears, and no write is issued.
C18_LogoutDetachesInPlace ==
    [][\A sock \in Socks, clientuuid \in ConfigIds, useruuid \in UserIds :
         /\ Handled("read") /\ ev'.sock = sock /\ IsLogout(ev'.msg)
         /\ Authenticated(sock, clientuuid, useruuid)
         => /\ useruuid \in DOMAIN users
            /\ users' = [users EXCEPT ![useruuid].clients = ListRemove(@, clientuuid)]
            /\ ~InSeq(users'[useruuid].clients, clientuuid)
            /\ clients' = [clients EXCEPT ![clientuuid].useruuid = None]
            /\ sockets' = sockets
            /\ \A i \in DOMAIN out' : out'[i].kind # "write"]_vars

\* the connection is logged out: bound to its stable id, its Client without
\* a user, the id in no list of the user it was attached to
C18_Witness ==
    /\ ev.kind = "read"
    /\ IsLogout(ev.msg)
    /\ Anonymous(ev.sock)
    /\ sockets[ev.sock].clientuuid \in ConfigIds
    /\ BoundClient(ev.sock).sock = ev.sock
    /\ raised = FALSE

\* ---- C19
\* C19: a broadcast of type "clients" issues one write of the content per
\* Client in the client map, to the socket of that Client, whether the Client
\* has a bound user or not, and nothing else.
C19_BroadcastClientsReachesAll ==
    (ev.kind = "broadcast" /\ ev.broadcasttype = "clients")
    => \E order \in Orders(DOMAIN clients) :
          out = [i \in DOMAIN order |-> write(clients[order[i]].sock, ev.content)]

\* a broadcast to the clients with a signed-in and an anonymous Client
C19_Witness ==
    /\ ev.kind = "broadcast"
    /\ ev.broadcasttype = "clients"
    /\ \E c \in DOMAIN clients : clients[c].useruuid = None
    /\ \E c \in DOMAIN clients : clients[c].useruuid # None
    /\ Len(out) = Cardinality(DOMAIN clients)

\* ---- C20
\* C20: a broadcast of type "users" fires one send of type "user" per known
\* user and nothing else, and such a send, resolved through the client list
\* of its user, writes to no socket whose Client has no bound user.
C20_BroadcastUsersSparesAnonymous ==
    /\ (ev.kind = "broadcast" /\ ev.broadcasttype = "users")
       => \E order \in Orders(DOMAIN users) :
             out = [i \in DOMAIN order |-> sendevent(order[i], ev.content, "user", FALSE)]
    /\ (ev.kind = "send" /\ ev.sendtype = "user" /\ ev.uuid \in DOMAIN users /\ ~ev.raw)
       => \A i \in DOMAIN out : ~Anonymous(out[i].sock)

\* ---- C21
\* C21: a grant for a registered socket whose originating client id (the id
\* the socket had when it asked) is no key of the client map changes nothing:
\* the bound client id of every socket, the client map and the client list of
\* every User are as before the grant.
C21_UnknownOriginFailsWhole ==
    [][(/\ Handled("authentication")
        /\ ev'.sock \in DOMAIN sockets
        /\ ev'.clientuuid # None
        /\ ev'.clientuuid \notin DOMAIN clients)
       => /\ sockets' = sockets
          /\ clients' = clients
          /\ \A useruuid \in DOMAIN users' :
               users'[useruuid].clients = clientsBefore(useruuid)]_vars

\* ---- C22
\* C22: a connect for a handle that is in the socket map changes nothing: the
\* Socket, the Client and the bound client id stay, no client id is added and
\* no acknowledgment is written.
C22_ConnectAgainIgnored ==
    [][Handled("connect") /\ ev'.sock \in DOMAIN sockets
         => out' = <<>> /\ MapsUnchanged /\ raised' = FALSE]_vars

\* an authenticated handle connected again and kept its binding
C22_Witness ==
    /\ ev.kind = "connect"
    /\ out = <<>>
    /\ Registered(ev.sock)
    /\ BoundClient(ev.sock).useruuid # None

\* ---- C23
\* the temporary id of a handle that never connected is no key of the client map
NeverConnectedIdUnused == \A sock \in Socks \ opened : uuid4(sock) \notin DOMAIN clients

\* C23: a connect for an unregistered handle adds one Socket and one Client
\* without a user, under a client id that is no key of the client map and
\* was none in any earlier state (the id belongs to a handle that had not
\* connected, and such an id is never a key), and fires exactly one
\* "Connected" acknowledgment, to the new socket.
C23_ConnectRegistersFresh ==
    /\ []NeverConnectedIdUnused
    /\ [][\A sock \in Socks :
            Handled("connect") /\ ev'.sock = sock /\ sock \notin DOMAIN sockets
            => \E clientuuid \in ClientIds :
                 /\ sock \notin opened /\ clientuuid = uuid4(sock)
                 /\ clientuuid \notin DOMAIN clients
                 /\ sockets' = Put(sockets, sock, Socket(ev'.ip, clientuuid))
                 /\ clients' = Put(clients, clientuuid,
                                  Client(sock, ev'.ip, clientuuid, None, "", None))
                 /\ users' = users
                 /\ out' = <<write(sock, dumps(<<"info", "Connected">>))>>]_vars

\* a second handle connected while the first is authenticated
C23_Witness ==
    /\ ev.kind = "connect"
    /\ Len(out) = 1
    /\ Anonymous(ev.sock)
    /\ \E sock \in DOMAIN sockets : sock # ev.sock /\ sockets[sock].clientuuid \in ConfigIds

\* ---- C24
\* C24: a disconnect of a handle in the socket map fires exactly one
\* disconnect notification, with the client id the socket is bound to and
\* the user the Client had before it was removed (None when anonymous), and
\* removes the Socket and the Client; a disconnect of an unknown handle fires
\* nothing and changes nothing.
C24_DisconnectNotifiesOnce ==
    [][\A sock \in Socks :
         Handled("disconnect") /\ ev'.sock = sock
         => IF sock \in DOMAIN sockets
            THEN LET clientuuid == sockets[sock].clientuuid
                 IN  /\ Len(out') = 1
                     /\ out'[1].kind = "clientdisconnect"
                     /\ out'[1].clientuuid = clientuuid
                     /\ clientuuid \in DOMAIN clients
                     /\ out'[1].useruuid = clients[clientuuid].useruuid
                     /\ sock \notin DOMAIN sockets'
                     /\ clientuuid \notin DOMAIN clients'
            ELSE out' = <<>> /\ MapsUnchanged]_vars

\* ---- C25
IsLogin(msg) == msg.form = "ok" /\ msg.component = "auth" /\ msg.action = "login"

\* C25: a login read with username, password and clientuuid on a registered
\* socket forwards exactly one authentication request, tagged with that
\* socket and the client id it is bound to, whatever the state of the
\* connection; a login read without data or without one of the fields
\* forwards none.
C25_LoginForwardsOneRequest ==
    (ev.kind = "read" /\ IsLogin(ev.msg))
    => /\ (ev.msg.data = "full" /\ ev.sock \in DOMAIN sockets)
          => out = <<authenticationrequest("username", "password",
                                           sockets[ev.sock].clientuuid, "requested", ev.sock)>>
       /\ ev.msg.data # "full" => out = <<>>

\* an authenticated connection asked to log in again
C25_Witness ==
    /\ ev.kind = "read"
    /\ IsLogin(ev.msg)
    /\ ev.msg.data = "full"
    /\ Dispatchable(ev.sock)
    /\ Len(out) = 1

\* ---- C26
\* C26: a login read changes none of the three maps, and a connection that
\* was never granted (bound to its temporary id, its Client without a user)
\* stays so through every event that is no grant, as long as it is registered.
C26_LoginAloneChangesNothing ==
    [][/\ Handled("read") /\ IsLogin(ev'.msg) => MapsUnchanged
       /\ \A sock \in Socks :
            (/\ Anonymous(sock)
             /\ sockets[sock].clientuuid = uuid4(sock)
             /\ ~Handled("authentication")
             /\ sock \in DOMAIN sockets')
            => /\ Anonymous(sock)'
               /\ sockets'[sock].clientuuid = uuid4(sock)]_vars

\* a connection with an outstanding login request, still anonymous after a
\* later read
C26_Witness ==
    /\ ev.kind = "read"
    /\ ~IsLogin(ev.msg)
    /\ Anonymous(ev.sock)
    /\ \E i \in DOMAIN authq : authq[i].sock = ev.sock

\* ---- C27
\* C27: a read for a component other than auth on a connection whose Client
\* has a signed-in user changes no map and lets no exception escape; for a
\* component without a registered event it fires nothing, for a registered
\* one it fires exactly one handler event, with the User of the connection's
\* Client, the action, the data and that Client.
C27_AuthenticatedReadDispatch ==
    [][\A sock \in Socks :
         (Handled("read") /\ ev'.sock = sock /\ NonAuth(ev'.msg) /\ Dispatchable(sock))
         => /\ MapsUnchanged
            /\ raised' = FALSE
            /\ out' = IF ev'.msg.component \in AuthorizedEvents
                      THEN <<authorizedevent(ev'.msg.component,
                                             users[BoundClient(sock).useruuid],
                                             ev'.msg.action,
                                             requestdataOf(ev'.msg),
                                             BoundClient(sock))>>
                      ELSE <<>>]_vars

\* an authenticated connection asked for a component without a handler
C27_Witness ==
    /\ ev.kind = "read"
    /\ NonAuth(ev.msg)
    /\ ev.msg.component \notin AuthorizedEvents
    /\ Dispatchable(ev.sock)
    /\ out = <<>>

C29_UsersNeverRemoved == [][DOMAIN users \subseteq DOMAIN users']_vars

\* the last client of a user logged out: the User is kept with an empty list
C29_Witness ==
    /\ ev.kind = "read"
    /\ IsLogout(ev.msg)
    /\ raised = FALSE
    /\ \E useruuid \in DOMAIN users : users[useruuid].clients = <<>>

\* ---- C30
\* C30: a broadcast of type "socks" issues exactly one write of the content
\* to every handle in the socket map, whether the client id it is bound to
\* is a key of the client map or not, and to no other handle.
C30_BroadcastSocksReachesAll ==
    (ev.kind = "broadcast" /\ ev.broadcasttype = "socks")
    => /\ Len(out) = Cardinality(DOMAIN sockets)
       /\ \A sock \in DOMAIN sockets :
            Cardinality({i \in DOMAIN out : out[i] = write(sock, ev.content)}) = 1
       /\ \A i \in DOMAIN out : out[i].kind = "write" /\ out[i].sock \in DOMAIN sockets

\* a broadcast to the sockets, one of them bound to an id without a Client
C30_Witness ==
    /\ ev.kind = "broadcast"
    /\ ev.broadcasttype = "socks"
    /\ \E sock \in DOMAIN sockets : ~Registered(sock)
    /\ Len(out) = Cardinality(DOMAIN sockets)

\* ------------------------------------------------------------ schemata
\* A Python dictionary is a function on the strings that are its keys.  A
\* role option of base_object is None, a string or a list of strings:
\* <<"none">>, <<"str", role>> or <<"list", roles>>.
RoleOptions == {<<"none">>, <<"str", "crew">>, <<"list", <<"crew", "captain">>>>}

Options ==
    [no_perms : BOOLEAN, no_color : BOOLEAN, has_owner : BOOLEAN, hide_owner : BOOLEAN,
     has_uuid : BOOLEAN, roles_write : RoleOptions, roles_create : RoleOptions,
     roles_read : {<<"none">>}, roles_list : {<<"none">>, <<"str", "crew">>},
     all_roles : {None, "crew"}]

\* the defaults of the keyword arguments (base.py lines 101-111)
DefaultOptions ==
    [no_perms |-> FALSE, no_color |-> FALSE, has_owner |-> TRUE, hide_owner |-> TRUE,
     has_uuid |-> TRUE, roles_write |-> <<"none">>, roles_create |-> <<"none">>,
     roles_read |-> <<"none">>, roles_list |-> <<"none">>, all_roles |-> None]

\* uuid_object (base.py lines 78-97), default left at None
uuid_object(title, display) ==
    LET uuid == [pattern |-> "^[a-fA-F0-9]{8}-...$", type |-> "string",
                 title |-> title, description |-> "Select an object"]
    IN  IF ~display
        THEN uuid @@ ("x-schema-form" :> [condition |-> "false"])
        ELSE uuid

\* base.py lines 117-139: the roles of one permission as a list
rolesOf(option, all_roles) ==
    IF all_roles # None
    THEN <<"admin", all_roles>>
    ELSE CASE option[1] = "none" -> <<"admin">>
           [] option[1] = "str" -> <<option[2]>>
           [] OTHER -> option[2]

\* base.py lines 141-144
withOwner(roles, has_owner) == IF has_owner THEN Append(roles, "owner") ELSE roles

\* base_object with the bare name as id
base_objectBareId(name, options) ==
    [id |-> name, type |-> "object", name |-> name, properties |-> << >>]

\* base_object (base.py lines 100-201)
base_object(name, options) ==
    LET o == options
        roles_write == withOwner(rolesOf(o.roles_write, o.all_roles), o.has_owner)
        roles_read == withOwner(rolesOf(o.roles_read, o.all_roles), o.has_owner)
        roles_list == withOwner(rolesOf(o.roles_list, o.all_roles), o.has_owner)
        roles_create == rolesOf(o.roles_create, o.all_roles)
        array(default) == [type |-> "array", default |-> default, items |-> [type |-> "string"]]
        perms == [id |-> "#perms", type |-> "object", name |-> "perms",
                  properties |-> [write |-> array(roles_write), read |-> array(roles_read),
                                  list |-> array(roles_list)],
                  default |-> << >>]
                 @@ ("x-schema-form" :> [condition |-> "false"])
        permproperties ==
            IF o.no_perms
            THEN << >>
            ELSE ("perms" :> perms)
                 @@ ("name" :> [type |-> "string", description |-> "Name of " \o name])
                 @@ (IF o.has_owner
                     THEN ("owner" :> uuid_object("Unique Owner ID", o.hide_owner))
                     ELSE << >>)
        colorproperties ==
            IF o.no_color THEN << >> ELSE ("color" :> [type |-> "string", format |-> "colorpicker"])
        uuidproperties ==
            IF o.has_uuid
            THEN ("uuid" :> uuid_object("Unique " \o name \o " ID", FALSE))
            ELSE << >>
    IN  [id |-> "#" \o name, type |-> "object", name |-> name,
         properties |-> permproperties @@ colorproperties @@ uuidproperties]
        @@ (IF o.no_perms THEN ("no_perms" :> TRUE) ELSE ("roles_create" :> roles_create))
        @@ (IF o.has_uuid THEN ("required" :> <<"uuid">>) ELSE << >>)

\* theme.py lines 43-59: the Theme definition
ThemeSchema ==
    LET schema == base_object("theme", [DefaultOptions EXCEPT !.all_roles = "crew"])
    IN  [schema EXCEPT !.properties =
            ("notes" :> [type |-> "string", format |-> "html", title |-> "Theme notes",
                         description |-> "Descriptive Theme notes"])
            @@ ("theme_file" :> [type |-> "string"])
            @@ @]

ThemeForm == <<"name", "color", "notes">>

Theme == [schema |-> ThemeSchema, form |-> ThemeForm]

\* the definitions an entry point can load: Theme, and under "tag" a
\* definition made as Theme is, for every choice of the options
Loadable(name) ==
    IF name = "theme"
    THEN {Theme}
    ELSE {[schema |-> base_object(name, options), form |-> <<"name">>] : options \in Options}

EntryPoints == {"theme", "tag"}

\* _build_schemastore_new (database.py lines 100-119), one entry point:
\* available[schema_entrypoint.name] = schema_entrypoint.load()
load(name, schema) ==
    /\ name \notin DOMAIN schemastore
    /\ schemastore' = Put(schemastore, name, schema)
    /\ ev' = [kind |-> "load", name |-> name]
    /\ UNCHANGED <<sockets, clients, users, opened, authq, nlogin, out, raised,
                   database, configuration>>

NextSchemata == \E name \in EntryPoints : \E schema \in Loadable(name) : load(name, schema)

SpecSchemata == Init /\ [][NextSchemata]_vars

C32_SocketsClientsOneToOne ==
    /\ Cardinality(DOMAIN clients) = Cardinality(DOMAIN sockets)
    /\ \A clientuuid \in DOMAIN clients :
         Cardinality({sock \in DOMAIN sockets : sockets[sock].clientuuid = clientuuid}) = 1

\* ---- C33
\* C33: every write caused by a send to user U goes to a socket that has a
\* Client record bound to user U at that time.
C33_NoCrossUserDelivery ==
    (ev.kind = "send" /\ ev.sendtype = "user")
    => \A i \in DOMAIN out :
          \E clientuuid \in DOMAIN clients :
              /\ clients[clientuuid].sock = out[i].sock
              /\ clients[clientuuid].useruuid = ev.uuid

\* ---- C34
\* the step is a logout read or a disconnect on this connection
LogoutOrDisconnect(sock) ==
    /\ \/ Handled("disconnect")
       \/ Handled("read") /\ IsLogout(ev'.msg)
    /\ ev'.sock = sock

\* C34: a logout or disconnect on one connection leaves the Socket binding,
\* the Client record and the bound user of every other connection unchanged:
\* another connection that was authenticated is still authenticated and its
\* protected requests are still dispatched.
C34_OtherConnectionsUntouched ==
    [][\A sock \in Socks, other \in Socks :
         (LogoutOrDisconnect(sock) /\ other # sock /\ Registered(other))
         => /\ other \in DOMAIN sockets'
            /\ sockets'[other] = sockets[other]
            /\ Registered(other)'
            /\ BoundClient(other)' = BoundClient(other)
            /\ (Dispatchable(other) => Dispatchable(other)')]_vars

\* ---- C35
\* C35: every Client with a bound user has that user as a key of the users
\* map and its own client id in that user's client list, and a client id is
\* in the client list of at most one User.
C35_ListsMirrorBindings ==
    /\ \A clientuuid \in DOMAIN clients :
          clients[clientuuid].useruuid # None
          => /\ clients[clientuuid].useruuid \in DOMAIN users
             /\ clientuuid \in Attached(clients[clientuuid].useruuid)
    /\ \A u1 \in DOMAIN users, u2 \in DOMAIN users :
          u1 # u2 => Attached(u1) \cap Attached(u2) = {}

C37_RoutingReadOnly ==
    [][(\/ Handled("send")
        \/ Handled("broadcast")
        \/ Handled("read") /\ NonAuth(ev'.msg))
       => MapsUnchanged]_vars

\* a send to a user was handled while the user's list held an id that has no
\* Client, next to one that was written to
C37_Witness ==
    /\ ev.kind = "send"
    /\ ev.sendtype = "user"
    /\ ev.uuid \in DOMAIN users
    /\ Len(out) >= 1
    /\ \E clientuuid \in Attached(ev.uuid) : clientuuid \notin DOMAIN clients

\* ------------------------------------------------------------ dupcheck
\* isomer.tool.objects.dupcheck.  A collection maps the ids of its stored
\* objects (_id) to their uuid field.
MaxObjects == 3
ObjectIds == 1..MaxObjects
Uuids == {"a", "b"}
Schemata == {"user", "tag"}
Collections == UNION {[ids -> Uuids] : ids \in SUBSET ObjectIds}

\* lines 410-415: dupes maps every uuid found to the objects that carry it
dupes(collection) ==
    [uuid \in {collection[item] : item \in DOMAIN collection} |->
        {item \in DOMAIN collection : collection[item] = uuid}]

\* line 416: the objects visited
count(collection) == Cardinality(DOMAIN collection)

\* line 412: the objects whose uuid had been met before
dupe_count(collection) == count(collection) - Cardinality(DOMAIN dupes(collection))

\* find_one({"uuid": uuid}) for every key of dupes: any one of the objects
\* that carry the uuid
find_one(collection) ==
    {found \in [DOMAIN dupes(collection) -> DOMAIN collection] :
        \A uuid \in DOMAIN found : found[uuid] \in dupes(collection)[uuid]}

\* lines 429-432: the object found for every key of dupes is deleted
deleteFound(collection, found) ==
    [item \in DOMAIN collection \ {found[uuid] : uuid \in DOMAIN found} |-> collection[item]]

\* handle_schema (lines 405-434, without the interactive merge): the
\* collections it may leave behind
handle_schema(collection, delete_duplicates) ==
    IF delete_duplicates
    THEN {deleteFound(collection, found) : found \in find_one(collection)}
    ELSE {collection}

\* lines 563-566: every schema, or the one of --schema
schemata(schema) == IF schema = None THEN Schemata ELSE {schema}

\* dupcheck (lines 389-571), do_merge not given
dupcheck(delete_duplicates, schema) ==
    /\ database.state = "open"
    /\ LET handled == [thing \in Schemata |->
                          IF thing \in schemata(schema)
                          THEN handle_schema(database.objectmodels[thing], delete_duplicates)
                          ELSE {database.objectmodels[thing]}]
       IN  \E after \in [Schemata -> UNION {handled[thing] : thing \in Schemata}] :
              /\ \A thing \in Schemata : after[thing] \in handled[thing]
              /\ database' = [database EXCEPT !.objectmodels = after]
    /\ ev' = [kind |-> "dupcheck", delete_duplicates |-> delete_duplicates, schema |-> schema,
              before |-> database.objectmodels,
              dupe_count |-> [thing \in Schemata |-> dupe_count(database.objectmodels[thing])]]
    /\ UNCHANGED <<sockets, clients, users, opened, authq, nlogin, out, raised,
                   schemastore, configuration>>

\* the tool is started on a database with any collections
InitDupcheck ==
    /\ ManagerInit
    /\ schemastore = << >>
    /\ configuration = [state |-> "idle"]
    /\ database \in {[state |-> "open", objectmodels |-> om] : om \in [Schemata -> Collections]}

NextDupcheck ==
    \E delete_duplicates \in BOOLEAN, schema \in Schemata \cup {None} :
        dupcheck(delete_duplicates, schema)

SpecDupcheck == InitDupcheck /\ [][NextDupcheck]_vars

\* ---- C38
\* the objects of the collection that carry this uuid
Carrying(collection, uuid) == {item \in DOMAIN collection : collection[item] = uuid}

\* C38: dupcheck with --delete-duplicates deletes only objects whose uuid
\* occurs more than once in the collection: an object with a unique uuid is
\* never deleted, and after the run at least one object remains for every
\* uuid that was present before.
C38_DupcheckKeepsOnePerUuid ==
    [][(Handled("dupcheck") /\ ev'.delete_duplicates)
       => \A thing \in Schemata :
            LET before == database.objectmodels[thing]
                after == database'.objectmodels[thing]
            IN  \A item \in DOMAIN before :
                  /\ Cardinality(Carrying(before, before[item])) = 1 => item \in DOMAIN after
                  /\ Carrying(after, before[item]) # {}]_vars

\* ------------------------------------------------------------ upgrade
\* isomer.tool.system.upgrade.  A configuration is the set of its top level
\* keys; the transformations of an operation are named after the version of
\* the upgrade table they belong to.
MaxVersion == 3
Rules == {"add", "tableize", "rename"}
Key(name, version) == [name |-> name, version |-> version]
Operation(rule, version) == [rule |-> rule, version |-> version]

\* isomer.tool.etc.upgrade_table: version -> list of operations
UpgradeTables ==
    UNION {{[version \in 1..newest |-> <<Operation(rules[version], version)>>] :
               rules \in [1..newest -> Rules]} : newest \in 1..MaxVersion}

\* the keys of a configuration file written before any upgrade
FileKeys == {Key(name, version) : name \in {"value", "old"}, version \in 1..MaxVersion}

\* max(upgrade_table): the newest version of the table
max(table) == CHOOSE version \in DOMAIN table : \A other \in DOMAIN table : other <= version

\* range(start, stop)
range(start, stop) == [i \in 1..(stop - start) |-> start + i - 1]

\* lines 311-327: the rules of the first loop applied to the configuration;
\* a key to tableize that is missing raises (line 324)
applyOperation(old_configuration, operation) ==
    CASE operation.rule = "add" ->
            [config |-> old_configuration \cup {Key("item", operation.version)}, raised |-> FALSE]
      [] operation.rule = "tableize" ->
            IF Key("value", operation.version) \notin old_configuration
            THEN [config |-> old_configuration, raised |-> TRUE]
            ELSE [config |-> (old_configuration \ {Key("value", operation.version)})
                               \cup {Key("table", operation.version)},
                  raised |-> FALSE]
      [] OTHER -> [config |-> old_configuration, raised |-> FALSE]

\* lines 309-327: the operations of one version, in the order of the list
RECURSIVE applyOperations(_, _)
applyOperations(old_configuration, operations) ==
    IF operations = <<>>
    THEN [config |-> old_configuration, raised |-> FALSE]
    ELSE LET done == applyOperation(old_configuration, Head(operations))
         IN  IF done.raised THEN done ELSE applyOperations(done.config, Tail(operations))

\* lines 306-330: one pass per value of range(old_version, max(upgrade_table)),
\* each over upgrade_table[old_version + 1]; applied lists the versions of
\* the table whose operations were run
RECURSIVE metaUpgrade(_, _, _, _)
metaUpgrade(old_configuration, upgrade_table, old_version, upgrades) ==
    IF upgrades = <<>>
    THEN [config |-> old_configuration, applied |-> <<>>, raised |-> FALSE]
    ELSE LET version == old_version + 1
             done == applyOperations(old_configuration, upgrade_table[version])
         IN  IF done.raised
             THEN [config |-> done.config, applied |-> <<version>>, raised |-> TRUE]
             ELSE LET rest == metaUpgrade(done.config, upgrade_table, old_version, Tail(upgrades))
                  IN  [config |-> rest.config, applied |-> <<version>> \o rest.applied,
                       raised |-> rest.raised]

\* tomlkit.dumps(x): the text of the document
toml_dumps(old_configuration) == <<"toml", old_configuration>>

\* new_configuration.replace(old, new), for the renames of an operation
replace(new_configuration, operation) ==
    IF operation.rule = "rename"
    THEN <<"toml", {IF key = Key("old", operation.version)
                    THEN Key("new", operation.version) ELSE key : key \in new_configuration[2]}>>
    ELSE new_configuration

RECURSIVE renameAll(_, _)
renameAll(new_configuration, operations) ==
    IF operations = <<>>
    THEN new_configuration
    ELSE renameAll(replace(new_configuration, Head(operations)), Tail(operations))

\* lines 334-342: the second loop, over upgrade_table[old_version + 1] as well
RECURSIVE textualUpgrade(_, _, _, _)
textualUpgrade(new_configuration, upgrade_table, old_version, upgrades) ==
    IF upgrades = <<>>
    THEN [text |-> new_configuration, applied |-> <<>>]
    ELSE LET version == old_version + 1
             rest == textualUpgrade(renameAll(new_configuration, upgrade_table[version]),
                                    upgrade_table, old_version, Tail(upgrades))
         IN  [text |-> rest.text, applied |-> <<version>> \o rest.applied]

\* upgrade (lines 280-345): the file is read, not written; an exception of
\* the first loop ends the command before the second
upgrade ==
    LET old_version == configuration.version
        upgrade_table == configuration.upgrade_table
        upgrades == range(old_version, max(upgrade_table))
        meta == metaUpgrade(configuration.keys, upgrade_table, old_version, upgrades)
        textual == IF meta.raised
                   THEN [text |-> <<"toml", {}>>, applied |-> <<>>]
                   ELSE textualUpgrade(toml_dumps(meta.config), upgrade_table, old_version, upgrades)
    IN  /\ configuration' = [state |-> "upgraded", version |-> old_version,
                             upgrade_table |-> upgrade_table, keys |-> configuration.keys,
                             meta |-> meta.applied, textual |-> textual.applied,
                             new_configuration |-> textual.text]
        /\ raised' = meta.raised
        /\ ev' = [kind |-> "upgrade", old_version |-> old_version]
        /\ UNCHANGED <<sockets, clients, users, opened, authq, nlogin, out, schemastore, database>>

\* the command is started on a configuration file of any version, with the
\* upgrade table of the installation
InitUpgrade ==
    /\ ManagerInit
    /\ schemastore = << >>
    /\ database = [state |-> "idle"]
    /\ configuration \in {[state |-> "file", version |-> old_version,
                            upgrade_table |-> upgrade_table, keys |-> FileKeys,
                            meta |-> <<>>, textual |-> <<>>, new_configuration |-> <<"toml", {}>>] :
                              old_version \in 0..MaxVersion, upgrade_table \in UpgradeTables}

NextUpgrade == upgrade

SpecUpgrade == InitUpgrade /\ [][NextUpgrade]_vars

\* ---- C39
\* the versions above start up to the newest of the table, ascending
Pending(start, newest) == [i \in 1..(newest - start) |-> start + i]

\* C39: the configuration upgrade walks the versions from the old version of
\* the file up to the newest entry of the upgrade table and applies the
\* operations of each intermediate version exactly once, in ascending order,
\* in both of its loops.
C39_UpgradeAscendingOnce ==
    configuration.state = "upgraded"
    => LET pending == Pending(configuration.version, max(configuration.upgrade_table))
       IN  /\ configuration.meta = pending
           /\ configuration.textual = pending
====
